---- MODULE Spec2Model ----
(***************************************************************************)
(* The three chart scripts of the repository, each modelled statement      *)
(* group by statement group as one run of a fresh process:                 *)
(*   generate_category_chart.py  (spending pie chart, actions Cat...)      *)
(*   generate_income_chart.py    (income pie chart,   actions Inc...)      *)
(*   generate_chart.py           (daily bar chart,    actions Day...)      *)
(* A run starts from the command line and the input file (script, env,     *)
(* file) and ends with pc = "done" and an exit status.                     *)
(*                                                                         *)
(* Money is counted in cents (3.0 is 300, "100.50" is 10050).  A JSON      *)
(* value is a tagged record [t, v]: "num" a JSON number, "numstr" a JSON   *)
(* string float() parses, "badstr" a JSON string float() rejects.          *)
(***************************************************************************)
EXTENDS Integers, Sequences, FiniteSets, TLC

\* Longest input of the category and income scripts.
MaxLen == 4
\* Longest input of the daily script.
MaxDays == 3

VARIABLES
    script,            \* which script this process runs
    env,               \* the command line and the file system the run meets
    file,              \* what the input file decodes to
    pc,                \* position of the run in the script
    data,              \* data = json.load(file)
    categories,        \* categories (category, income)
    raw_amounts,       \* raw_amounts (category)
    amounts,           \* amounts (category, income)
    i,                 \* loop index of the coercion loop (category)
    colors_to_use,     \* colors_to_use (category, income)
    legend_labels,     \* legend_labels (category, income)
    pie_total,         \* sum(all_values) seen by format_value_for_pie (category)
    dates,             \* dates (daily)
    totals,            \* totals (daily)
    weekdays,          \* weekdays (daily)
    totals_por_dia,    \* totals_por_dia (daily)
    formatted_labels,  \* formatted_labels (daily)
    dias_plot,         \* dias_plot (daily)
    totais_plot,       \* totais_plot (daily)
    total_gastos,      \* total_gastos (daily)
    fig,               \* what matplotlib holds: nothing, an empty figure, a chart
    saved,             \* plt.savefig wrote the image
    uploaded,          \* cloudinary.uploader.upload was called
    out,               \* lines printed on standard output
    err,               \* lines printed on the error stream
    warnings,          \* indexes of the records a negative-value warning was printed for
    error,             \* why the run failed ("none" while it has not)
    exit_code          \* exit status: -1 while running, then 0 or 1

inVars == <<script, env, file>>
catVars == <<categories, raw_amounts, amounts, i, colors_to_use, legend_labels, pie_total>>
dayVars == <<dates, totals, weekdays, totals_por_dia, formatted_labels, dias_plot,
             totais_plot, total_gastos>>
ioVars == <<fig, saved, uploaded>>
endVars == <<out, err, warnings, error, exit_code>>
vars == <<inVars, pc, data, catVars, dayVars, ioVars, endVars>>

----------------------------------------------------------------------------
(* JSON values and records *)

Num(v) == [t |-> "num", v |-> v]
NumStr(v) == [t |-> "numstr", v |-> v]
BadStr == [t |-> "badstr", v |-> 0]
Unset == [t |-> "unset", v |-> 0]

\* A record {"_id": id, "total": total}; a key may be missing.
Rec(id, total) == [has_id |-> TRUE, id |-> id, has_total |-> TRUE, total |-> total]
RecNoTotal(id) == [has_id |-> TRUE, id |-> id, has_total |-> FALSE, total |-> Unset]
RecNoId(id, total) == [has_id |-> FALSE, id |-> id, has_total |-> TRUE, total |-> total]

Date(y, m, d) == [y |-> y, m |-> m, d |-> d]

\* Records fed to the category and income scripts.
CatRecords ==
    { Rec("food", NumStr(10050)), Rec("rent", Num(-500)), Rec("food", Num(300)),
      Rec("rent", Num(700)), Rec("rent", BadStr), RecNoTotal("rent"),
      RecNoId("", Num(300)) }

\* Records fed to the daily script: two Mondays a week apart, a Wednesday, a
\* Sunday of the year before, and a day no calendar has.
DayRecords ==
    { Rec(Date(2024, 1, 1), Num(300)), Rec(Date(2024, 1, 1), BadStr),
      Rec(Date(2024, 1, 8), Num(700)), Rec(Date(2024, 1, 3), Num(-500)),
      Rec(Date(2023, 12, 31), Num(300)), Rec(Date(2024, 2, 30), Num(300)),
      RecNoTotal(Date(2024, 1, 3)), RecNoId(Date(2024, 1, 1), Num(300)) }

SeqsUpTo(S, n) == UNION { [1..k -> S] : k \in 0..n }

Scripts == {"category", "income", "daily"}
Envs == {"ok", "noargs", "nofile", "badjson", "ioerror"}

----------------------------------------------------------------------------
(* Python and library functions the scripts call *)

\* float(x) succeeds.
CanFloat(x) == x.t \in {"num", "numstr"}
\* float(x), in cents.
Float(x) == x.v
\* x + y is defined for Python numbers only (sum starts from the int 0).
IsNumber(x) == x.t = "num"

RECURSIVE SumSeq(_)
SumSeq(s) == IF s = <<>> THEN 0 ELSE s[1].v + SumSeq(Tail(s))

\* string.capwords on the labels of the model.
Capwords(s) ==
    CASE s = "food" -> "Food"
      [] s = "rent" -> "Rent"
      [] OTHER -> s

\* datetime's calendar.
IsLeap(y) == y % 4 = 0 /\ (y % 100 # 0 \/ y % 400 = 0)
DaysInMonth(y, m) ==
    IF m = 2 THEN (IF IsLeap(y) THEN 29 ELSE 28)
    ELSE IF m \in {4, 6, 9, 11} THEN 30 ELSE 31
DaysBeforeYear(y) == (y - 1) * 365 + (y - 1) \div 4 - (y - 1) \div 100 + (y - 1) \div 400
RECURSIVE DaysBeforeMonth(_, _)
DaysBeforeMonth(y, m) ==
    IF m = 1 THEN 0 ELSE DaysBeforeMonth(y, m - 1) + DaysInMonth(y, m - 1)
ToOrdinal(dt) == DaysBeforeYear(dt.y) + DaysBeforeMonth(dt.y, dt.m) + dt.d
\* strptime(s, "%Y-%m-%d") succeeds.
CanStrptime(dt) == dt.m \in 1..12 /\ dt.d \in 1..DaysInMonth(dt.y, dt.m)
\* d.strftime("%a") in the C locale.
StrftimeA(dt) ==
    <<"Mon", "Tue", "Wed", "Thu", "Fri", "Sat", "Sun">>[((ToOrdinal(dt) + 6) % 7) + 1]
Pad2(n) == IF n < 10 THEN "0" \o ToString(n) ELSE ToString(n)
\* d.strftime("%d/%m")
StrftimeDM(dt) == Pad2(dt.d) \o "/" \o Pad2(dt.m)

dias_semana ==
    [a \in {"Mon", "Tue", "Wed", "Thu", "Fri", "Sat", "Sun"} |->
        CASE a = "Mon" -> "seg" [] a = "Tue" -> "ter" [] a = "Wed" -> "qua"
          [] a = "Thu" -> "qui" [] a = "Fri" -> "sex" [] a = "Sat" -> "sáb"
          [] OTHER -> "dom"]
dias_da_semana_ordenados == <<"seg", "ter", "qua", "qui", "sex", "sáb", "dom">>

\* FormatLabel with month and day swapped, as "%m/%d" would give.
FormatLabelMonthFirst(dia, dt) == dia \o " (" \o Pad2(dt.m) \o "/" \o Pad2(dt.d) \o ")"

\* f"{dia} ({d.strftime('%d/%m')})"
FormatLabel(dia, dt) == dia \o " (" \o StrftimeDM(dt) \o ")"

----------------------------------------------------------------------------
(* How a run ends *)

Line(kind, about) == [kind |-> kind, about |-> about]

\* print(diagnostic) on standard output, then sys.exit(1).
FailStdout(why) ==
    /\ out' = Append(out, Line("diag", why))
    /\ error' = why
    /\ exit_code' = 1
    /\ pc' = "done"
    /\ UNCHANGED <<err, warnings>>

\* print(diagnostic, file=sys.stderr), then sys.exit(1).
FailStderr(why) ==
    /\ err' = Append(err, Line("diag", why))
    /\ error' = why
    /\ exit_code' = 1
    /\ pc' = "done"
    /\ UNCHANGED <<out, warnings>>

\* An exception nothing catches: the interpreter prints the traceback on the
\* error stream and the process exits with status 1.
Uncaught(why) ==
    /\ err' = Append(err, Line("traceback", why))
    /\ error' = why
    /\ exit_code' = 1
    /\ pc' = "done"
    /\ UNCHANGED <<out, warnings>>

\* The run goes on to the next statement group.
Goto(next) ==
    /\ pc' = next
    /\ UNCHANGED endVars

----------------------------------------------------------------------------
Init ==
    /\ script \in Scripts
    /\ env \in Envs
    /\ file \in IF env # "ok" THEN {<<>>}
                ELSE IF script = "daily" THEN SeqsUpTo(DayRecords, MaxDays)
                ELSE SeqsUpTo(CatRecords, MaxLen)
    /\ pc = "args"
    /\ data = <<>>
    /\ categories = <<>>
    /\ raw_amounts = <<>>
    /\ amounts = <<>>
    /\ i = 0
    /\ colors_to_use = <<>>
    /\ legend_labels = <<>>
    /\ pie_total = Unset
    /\ dates = <<>>
    /\ totals = <<>>
    /\ weekdays = <<>>
    /\ totals_por_dia = <<>>
    /\ formatted_labels = <<>>
    /\ dias_plot = <<>>
    /\ totais_plot = <<>>
    /\ total_gastos = Unset
    /\ fig = "none"
    /\ saved = FALSE
    /\ uploaded = FALSE
    /\ out = <<>>
    /\ err = <<>>
    /\ warnings = {}
    /\ error = "none"
    /\ exit_code = -1

----------------------------------------------------------------------------
(* generate_category_chart.py *)

CatCheckArgs ==
    /\ script = "category" /\ pc = "args"
    /\ IF env = "noargs" THEN FailStdout("args") ELSE Goto("exists")
    /\ UNCHANGED <<inVars, data, catVars, dayVars, ioVars>>

CatCheckExists ==
    /\ script = "category" /\ pc = "exists"
    /\ IF env = "nofile" THEN FailStdout("missing_file") ELSE Goto("load")
    /\ UNCHANGED <<inVars, data, catVars, dayVars, ioVars>>

CatLoadJson ==
    /\ script = "category" /\ pc = "load"
    /\ CASE env = "badjson" -> FailStdout("json") /\ UNCHANGED data
         [] env = "ioerror" -> FailStderr("read") /\ UNCHANGED data
         [] OTHER -> Goto("empty") /\ data' = file
    /\ UNCHANGED <<inVars, catVars, dayVars, ioVars>>

CatCheckEmpty ==
    /\ script = "category" /\ pc = "empty"
    /\ IF data = <<>> THEN FailStdout("empty") ELSE Goto("extract")
    /\ UNCHANGED <<inVars, data, catVars, dayVars, ioVars>>

\* Lines 44-49: the two comprehensions; item["_id"] or item["total"] of a record
\* without the key raises KeyError, which nothing catches.
CatExtract ==
    /\ script = "category" /\ pc = "extract"
    /\ IF data = <<>>
       THEN Goto("colors") /\ UNCHANGED <<categories, raw_amounts, i>>
       ELSE IF \E k \in 1..Len(data) : ~data[k].has_id
       THEN Uncaught("record") /\ UNCHANGED <<categories, raw_amounts, i>>
       ELSE IF \E k \in 1..Len(data) : ~data[k].has_total
       THEN /\ Uncaught("record")
            /\ categories' = [k \in 1..Len(data) |-> data[k].id]
            /\ UNCHANGED <<raw_amounts, i>>
       ELSE /\ Goto("coerce")
            /\ categories' = [k \in 1..Len(data) |-> data[k].id]
            /\ raw_amounts' = [k \in 1..Len(data) |-> data[k].total]
            /\ i' = 1
    /\ UNCHANGED <<inVars, data, amounts, colors_to_use, legend_labels, pie_total,
                   dayVars, ioVars>>

\* CatCoerce with the negative branch printing its warning and appending nothing.
CatCoerceDropNegative ==
    /\ script = "category" /\ pc = "coerce"
    /\ i <= Len(raw_amounts)
    /\ IF ~CanFloat(raw_amounts[i])
       THEN FailStderr("record") /\ UNCHANGED <<amounts, i>>
       ELSE /\ IF Float(raw_amounts[i]) < 0
               THEN /\ err' = Append(err, Line("warning", "negative"))
                    /\ warnings' = warnings \cup {i}
                    /\ UNCHANGED amounts
               ELSE /\ amounts' = Append(amounts, Num(Float(raw_amounts[i])))
                    /\ UNCHANGED <<err, warnings>>
            /\ i' = i + 1
            /\ pc' = IF i = Len(raw_amounts) THEN "colors" ELSE "coerce"
            /\ UNCHANGED <<out, error, exit_code>>
    /\ UNCHANGED <<inVars, data, categories, raw_amounts, colors_to_use, legend_labels,
                   pie_total, dayVars, ioVars>>

\* Lines 51-63: one iteration of the coercion loop.
CatCoerce ==
    /\ script = "category" /\ pc = "coerce"
    /\ i <= Len(raw_amounts)
    /\ IF ~CanFloat(raw_amounts[i])
       THEN FailStderr("record") /\ UNCHANGED <<amounts, i>>
       ELSE /\ IF Float(raw_amounts[i]) < 0
               THEN /\ err' = Append(err, Line("warning", "negative"))
                    /\ warnings' = warnings \cup {i}
                    /\ amounts' = Append(amounts, Num(0))
               ELSE /\ amounts' = Append(amounts, Num(Float(raw_amounts[i])))
                    /\ UNCHANGED <<err, warnings>>
            /\ i' = i + 1
            /\ pc' = IF i = Len(raw_amounts) THEN "colors" ELSE "coerce"
            /\ UNCHANGED <<out, error, exit_code>>
    /\ UNCHANGED <<inVars, data, categories, raw_amounts, colors_to_use, legend_labels,
                   pie_total, dayVars, ioVars>>

CatShades == <<"#F3E5AB", "#E6D27A", "#C8B458">>

\* Lines 66-89.
CatColorsFor(n) ==
    IF n = 0 THEN <<>>
    ELSE IF n = 1 THEN <<CatShades[2]>>
    ELSE IF n % 2 # 0 THEN [k \in 1..n |-> CatShades[((k - 1) % 3) + 1]]
    ELSE [k \in 1..n |-> <<CatShades[1], CatShades[3]>>[((k - 1) % 2) + 1]]

CatColors ==
    /\ script = "category" /\ pc = "colors"
    /\ colors_to_use' = CatColorsFor(Len(categories))
    /\ Goto("render")
    /\ UNCHANGED <<inVars, data, categories, raw_amounts, amounts, i, legend_labels,
                   pie_total, dayVars, ioVars>>

\* Lines 98-139: the figure, then either the "nothing to show" text or the pie
\* with its legend.  amounts holds floats >= 0 here, so ax.pie does not raise.
CatRender ==
    /\ script = "category" /\ pc = "render"
    /\ IF data = <<>>
       THEN UNCHANGED <<fig, legend_labels, pie_total>>
       ELSE IF amounts = <<>> \/ \A k \in 1..Len(amounts) : amounts[k].v <= 0
       THEN fig' = "text" /\ UNCHANGED <<legend_labels, pie_total>>
       ELSE /\ fig' = "pie"
            /\ pie_total' = Num(SumSeq(amounts))
            /\ legend_labels' =
                   [k \in 1..(IF Len(categories) < Len(amounts) THEN Len(categories)
                              ELSE Len(amounts)) |-> <<categories[k], amounts[k]>>]
    /\ Goto("save")
    /\ UNCHANGED <<inVars, data, categories, raw_amounts, amounts, i, colors_to_use,
                   dayVars, saved, uploaded>>

\* Lines 141-146: plt.savefig writes the image or raises.
CatSave ==
    /\ script = "category" /\ pc = "save"
    /\ \/ saved' = TRUE /\ Goto("upload")
       \/ FailStdout("save") /\ UNCHANGED saved
    /\ UNCHANGED <<inVars, data, catVars, dayVars, fig, uploaded>>

\* Lines 148-173: the upload returns a URL, returns none, or raises.
CatUpload ==
    /\ script = "category" /\ pc = "upload"
    /\ uploaded' = TRUE
    /\ \/ /\ out' = Append(out, Line("url", "secure_url"))
          /\ exit_code' = 0
          /\ pc' = "done"
          /\ UNCHANGED <<err, warnings, error>>
       \/ FailStdout("no_url")
       \/ FailStdout("upload")
    /\ UNCHANGED <<inVars, data, catVars, dayVars, fig, saved>>

----------------------------------------------------------------------------
(* generate_income_chart.py *)

IncCheckArgs ==
    /\ script = "income" /\ pc = "args"
    /\ IF env = "noargs" THEN FailStdout("args") ELSE Goto("load")
    /\ UNCHANGED <<inVars, data, catVars, dayVars, ioVars>>

\* Lines 22-27: every exception of open and json.load is caught.
IncLoadJson ==
    /\ script = "income" /\ pc = "load"
    /\ CASE env = "nofile" -> FailStderr("missing_file") /\ UNCHANGED data
         [] env = "badjson" -> FailStderr("json") /\ UNCHANGED data
         [] env = "ioerror" -> FailStderr("read") /\ UNCHANGED data
         [] OTHER -> Goto("empty") /\ data' = file
    /\ UNCHANGED <<inVars, catVars, dayVars, ioVars>>

IncCheckEmpty ==
    /\ script = "income" /\ pc = "empty"
    /\ IF data = <<>> THEN FailStdout("empty") ELSE Goto("extract")
    /\ UNCHANGED <<inVars, data, catVars, dayVars, ioVars>>

\* Lines 33-34: the labels go through string.capwords, the totals are taken as
\* they are; a missing key raises KeyError, which nothing catches.
IncExtract ==
    /\ script = "income" /\ pc = "extract"
    /\ IF \E k \in 1..Len(data) : ~data[k].has_id
       THEN Uncaught("record") /\ UNCHANGED <<categories, amounts>>
       ELSE IF \E k \in 1..Len(data) : ~data[k].has_total
       THEN /\ Uncaught("record")
            /\ categories' = [k \in 1..Len(data) |-> Capwords(data[k].id)]
            /\ UNCHANGED amounts
       ELSE /\ Goto("colors")
            /\ categories' = [k \in 1..Len(data) |-> Capwords(data[k].id)]
            /\ amounts' = [k \in 1..Len(data) |-> data[k].total]
    /\ UNCHANGED <<inVars, data, raw_amounts, i, colors_to_use, legend_labels, pie_total,
                   dayVars, ioVars>>

IncShades == <<"#D4EDDA", "#A3D9B1", "#73C686">>

\* Lines 36-45.
IncColorsFor(n) == [k \in 1..n |-> IncShades[((k - 1) % 3) + 1]]

IncColors ==
    /\ script = "income" /\ pc = "colors"
    /\ colors_to_use' = IncColorsFor(Len(categories))
    /\ Goto("subplots")
    /\ UNCHANGED <<inVars, data, categories, raw_amounts, amounts, i, legend_labels,
                   pie_total, dayVars, ioVars>>

\* Line 52: plt.subplots creates the figure.
IncSubplots ==
    /\ script = "income" /\ pc = "subplots"
    /\ fig' = "created"
    /\ Goto("pie")
    /\ UNCHANGED <<inVars, data, catVars, dayVars, saved, uploaded>>

\* Lines 54-61: ax1.pie(amounts, autopct=...).  matplotlib converts the values
\* with numpy (ValueError on a string that is no number), rejects a negative
\* wedge (ValueError), and calls autopct, whose sum(all_values) raises
\* TypeError when a value is a string.  Nothing catches any of them.
IncPie ==
    /\ script = "income" /\ pc = "pie"
    /\ IF \E k \in 1..Len(amounts) : ~CanFloat(amounts[k])
       THEN Uncaught("record") /\ UNCHANGED fig
       ELSE IF \E k \in 1..Len(amounts) : Float(amounts[k]) < 0
       THEN Uncaught("negative") /\ UNCHANGED fig
       ELSE IF \E k \in 1..Len(amounts) : ~IsNumber(amounts[k])
       THEN Uncaught("process") /\ UNCHANGED fig
       ELSE Goto("legend") /\ fig' = "pie"
    /\ UNCHANGED <<inVars, data, catVars, dayVars, saved, uploaded>>

\* Lines 63-73: the letters in the slices and the legend.
IncLegend ==
    /\ script = "income" /\ pc = "legend"
    /\ legend_labels' =
           [k \in 1..(IF Len(categories) < Len(amounts) THEN Len(categories)
                      ELSE Len(amounts)) |-> <<categories[k], amounts[k]>>]
    /\ Goto("save")
    /\ UNCHANGED <<inVars, data, categories, raw_amounts, amounts, i, colors_to_use,
                   pie_total, dayVars, ioVars>>

IncSave ==
    /\ script = "income" /\ pc = "save"
    /\ \/ saved' = TRUE /\ Goto("upload")
       \/ FailStdout("save") /\ UNCHANGED saved
    /\ UNCHANGED <<inVars, data, catVars, dayVars, fig, uploaded>>

IncUpload ==
    /\ script = "income" /\ pc = "upload"
    /\ uploaded' = TRUE
    /\ \/ /\ out' = Append(out, Line("url", "secure_url"))
          /\ exit_code' = 0
          /\ pc' = "done"
          /\ UNCHANGED <<err, warnings, error>>
       \/ FailStdout("no_url")
       \/ FailStdout("upload")
    /\ UNCHANGED <<inVars, data, catVars, dayVars, fig, saved>>

----------------------------------------------------------------------------
(* generate_chart.py *)

DayCheckArgs ==
    /\ script = "daily" /\ pc = "args"
    /\ IF env = "noargs" THEN FailStdout("args") ELSE Goto("exists")
    /\ UNCHANGED <<inVars, data, catVars, dayVars, ioVars>>

DayCheckExists ==
    /\ script = "daily" /\ pc = "exists"
    /\ IF env = "nofile" THEN FailStdout("missing_file") ELSE Goto("load")
    /\ UNCHANGED <<inVars, data, catVars, dayVars, ioVars>>

\* Lines 30-36: only json.JSONDecodeError is caught; on success the loaded
\* data is printed on standard output.
DayLoadJson ==
    /\ script = "daily" /\ pc = "load"
    /\ CASE env = "badjson" -> FailStdout("json") /\ UNCHANGED data
         [] env = "ioerror" -> Uncaught("read") /\ UNCHANGED data
         [] OTHER -> /\ data' = file
                     /\ out' = Append(out, Line("info", "loaded"))
                     /\ pc' = "empty"
                     /\ UNCHANGED <<err, warnings, error, exit_code>>
    /\ UNCHANGED <<inVars, catVars, dayVars, ioVars>>

\* DayCheckEmpty with the test of line 39 left out.
DayCheckEmptySkipped ==
    /\ script = "daily" /\ pc = "empty"
    /\ Goto("process")
    /\ UNCHANGED <<inVars, data, catVars, dayVars, ioVars>>

DayCheckEmpty ==
    /\ script = "daily" /\ pc = "empty"
    /\ IF data = <<>> THEN FailStdout("empty") ELSE Goto("process")
    /\ UNCHANGED <<inVars, data, catVars, dayVars, ioVars>>

\* The first record the dates comprehension of line 51 raises on (0: none).
FirstBadDate(d) ==
    LET bad == { k \in 1..Len(d) : ~d[k].has_id \/ ~CanStrptime(d[k].id) }
    IN IF bad = {} THEN 0 ELSE CHOOSE k \in bad : \A j \in bad : k <= j

\* Lines 50-58: dates, totals and weekdays, inside one try whose handler
\* prints on standard output and exits with status 1.
DayProcess ==
    /\ script = "daily" /\ pc = "process"
    /\ LET b == FirstBadDate(data) IN
       IF b # 0
       THEN /\ FailStdout(IF data[b].has_id THEN "date" ELSE "record")
            /\ UNCHANGED <<dates, totals, weekdays>>
       ELSE IF \E k \in 1..Len(data) : ~data[k].has_total
       THEN /\ FailStdout("record")
            /\ dates' = [k \in 1..Len(data) |-> data[k].id]
            /\ UNCHANGED <<totals, weekdays>>
       ELSE /\ Goto("build")
            /\ dates' = [k \in 1..Len(data) |-> data[k].id]
            /\ totals' = [k \in 1..Len(data) |-> data[k].total]
            /\ weekdays' = [k \in 1..Len(data) |-> dias_semana[StrftimeA(data[k].id)]]
    /\ UNCHANGED <<inVars, data, catVars, totals_por_dia, formatted_labels, dias_plot,
                   totais_plot, total_gastos, ioVars>>

\* OverlayTotals filling a slot only while it still holds its initial zero.
RECURSIVE OverlayTotalsKeepFirst(_, _, _, _)
OverlayTotalsKeepFirst(tp, wd, tt, k) ==
    IF k > Len(wd) \/ k > Len(tt) THEN tp
    ELSE OverlayTotalsKeepFirst(
             IF tp[wd[k]] = Num(0) THEN [tp EXCEPT ![wd[k]] = tt[k]] ELSE tp,
             wd, tt, k + 1)

\* Lines 66-68: the loop over zip(dates, weekdays, totals), from record k on.
RECURSIVE OverlayTotals(_, _, _, _)
OverlayTotals(tp, wd, tt, k) ==
    IF k > Len(wd) \/ k > Len(tt) THEN tp
    ELSE OverlayTotals([tp EXCEPT ![wd[k]] = tt[k]], wd, tt, k + 1)

RECURSIVE OverlayLabels(_, _, _, _)
OverlayLabels(fl, ds, wd, k) ==
    IF k > Len(wd) \/ k > Len(ds) THEN fl
    ELSE OverlayLabels([fl EXCEPT ![wd[k]] = FormatLabel(wd[k], ds[k])], ds, wd, k + 1)

Dias == { dias_da_semana_ordenados[k] : k \in 1..Len(dias_da_semana_ordenados) }

\* Lines 60-72: the seven slots, the overlay, and the two plot lists.
DayBuild ==
    /\ script = "daily" /\ pc = "build"
    /\ LET tp == OverlayTotals([dia \in Dias |-> Num(0)], weekdays, totals, 1)
           fl == OverlayLabels([dia \in Dias |-> ""], dates, weekdays, 1)
       IN /\ totals_por_dia' = tp
          /\ formatted_labels' = fl
          /\ dias_plot' = [k \in 1..Len(dias_da_semana_ordenados) |->
                              IF fl[dias_da_semana_ordenados[k]] # ""
                              THEN fl[dias_da_semana_ordenados[k]]
                              ELSE dias_da_semana_ordenados[k]]
          /\ totais_plot' = [k \in 1..Len(dias_da_semana_ordenados) |->
                                tp[dias_da_semana_ordenados[k]]]
    /\ Goto("sum")
    /\ UNCHANGED <<inVars, data, catVars, dates, totals, weekdays, total_gastos, ioVars>>

\* Line 75: sum(totais_plot) raises TypeError on a value that is no number.
DaySum ==
    /\ script = "daily" /\ pc = "sum"
    /\ IF \E k \in 1..Len(totais_plot) : ~IsNumber(totais_plot[k])
       THEN Uncaught("record") /\ UNCHANGED total_gastos
       ELSE Goto("render") /\ total_gastos' = Num(SumSeq(totais_plot))
    /\ UNCHANGED <<inVars, data, catVars, dates, totals, weekdays, totals_por_dia,
                   formatted_labels, dias_plot, totais_plot, ioVars>>

\* Lines 78-117: the figure and the bars.
DayRender ==
    /\ script = "daily" /\ pc = "render"
    /\ fig' = "bar"
    /\ Goto("save")
    /\ UNCHANGED <<inVars, data, catVars, dayVars, saved, uploaded>>

\* Lines 120-125: the confirmation is printed and the script ends (status 0),
\* or the handler prints on standard output and exits with status 1.
DaySave ==
    /\ script = "daily" /\ pc = "save"
    /\ \/ /\ saved' = TRUE
          /\ out' = Append(out, Line("info", "saved"))
          /\ exit_code' = 0
          /\ pc' = "done"
          /\ UNCHANGED <<err, warnings, error>>
       \/ FailStdout("save") /\ UNCHANGED saved
    /\ UNCHANGED <<inVars, data, catVars, dayVars, fig, uploaded>>

----------------------------------------------------------------------------
Next ==
    \/ CatCheckArgs \/ CatCheckExists \/ CatLoadJson \/ CatCheckEmpty
    \/ CatExtract \/ CatCoerce \/ CatColors \/ CatRender \/ CatSave \/ CatUpload
    \/ IncCheckArgs \/ IncLoadJson \/ IncCheckEmpty \/ IncExtract \/ IncColors
    \/ IncSubplots \/ IncPie \/ IncLegend \/ IncSave \/ IncUpload
    \/ DayCheckArgs \/ DayCheckExists \/ DayLoadJson \/ DayCheckEmpty \/ DayProcess
    \/ DayBuild \/ DaySum \/ DayRender \/ DaySave

Spec == Init /\ [][Next]_vars

----------------------------------------------------------------------------
(* Vocabulary of the properties *)

Done == pc = "done"
CategoryScripts == {"category", "income"}

\* A record the spec calls malformed: a key is missing or float(total) fails.
MalformedRecord(r) == ~r.has_id \/ ~r.has_total \/ ~CanFloat(r.total)
Malformed(f) == \E k \in 1..Len(f) : MalformedRecord(f[k])
Valid(f) == f # <<>> /\ ~Malformed(f)

\* The coerced, clamped value of a total.
Clamped(x) == IF Float(x) < 0 THEN 0 ELSE Float(x)
RECURSIVE ClampedSum(_)
ClampedSum(s) == IF s = <<>> THEN 0 ELSE Clamped(s[1]) + ClampedSum(Tail(s))

\* A chart has been drawn.
ChartDrawn == fig \in {"pie", "bar"}

\* The category script is past its coercion loop.
CatSeriesBuilt ==
    /\ script = "category"
    /\ \/ pc \in {"colors", "render", "save", "upload"}
       \/ Done /\ error \in {"none", "save", "no_url", "upload"}

\* The income script is past its two comprehensions.
IncSeriesBuilt ==
    /\ script = "income"
    /\ \/ pc \in {"colors", "subplots", "pie", "legend", "save", "upload"}
       \/ Done /\ error \in {"none", "negative", "process", "save", "no_url", "upload"}

\* The daily script has built dias_plot and totais_plot.
DaySeriesBuilt ==
    /\ script = "daily"
    /\ \/ pc \in {"sum", "render", "save"}
       \/ Done /\ error \in {"none", "save"}
       \/ Done /\ error = "record" /\ totais_plot # <<>>

\* Colours are chosen (category and income scripts).
ColorsChosen ==
    \/ pc \in {"render", "subplots", "pie", "legend", "save", "upload"}
    \/ Done /\ error \in {"none", "negative", "process", "save", "no_url", "upload"}

\* The records of f dated on the weekday of slot k, counted from a known
\* Monday (1 January 2024).
OnWeekday(f, k) ==
    { r \in 1..Len(f) :
        (ToOrdinal(f[r].id) - ToOrdinal(Date(2024, 1, 1))) % 7 = k - 1 }
Last(S) == CHOOSE r \in S : \A q \in S : q <= r

\* The calendar days around the dates of the model.
CalendarDays ==
    { Date(2023, 12, d) : d \in 18..31 } \cup { Date(2024, 1, d) : d \in 1..21 }

----------------------------------------------------------------------------
(* C1 *)

\* C1: in every script that builds a category series (spending and income),
\* every point has value >= 0: a record whose total coerces to a negative
\* float yields the value 0.0 and a warning is recorded for it.
NegativeClampedEverywhere ==
    script \in CategoryScripts =>
        \A k \in 1..Len(amounts) :
            CanFloat(amounts[k]) =>
                /\ Float(amounts[k]) >= 0
                /\ Float(data[k].total) < 0 => (amounts[k] = Num(0) /\ k \in warnings)

----------------------------------------------------------------------------
(* C2 *)

\* C2: when a record of the input lacks _id or total, or its total cannot be
\* coerced to a float, the run fails with exit status 1 in every script: the
\* record is never skipped, and no chart is rendered, saved or uploaded.
MalformedRecordAborts ==
    (env = "ok" /\ Malformed(file)) =>
        /\ ~ChartDrawn /\ ~saved /\ ~uploaded
        /\ exit_code # 0
        /\ Done => exit_code = 1

----------------------------------------------------------------------------
(* C3 *)

\* The series the claim describes for a window of n days ending on today.
IsWindowSeries(n, today) ==
    /\ Len(totais_plot) = n
    /\ \A k \in 1..n :
          LET day == ToOrdinal(today) - (n - k)
              on == { r \in 1..Len(file) : ToOrdinal(file[r].id) = day }
          IN IF on = {} THEN totais_plot[k] = Num(0)
             ELSE \E r \in on : totais_plot[k] = file[r].total

\* C3: in date mode the output has exactly N points (1 <= N <= 7), one per
\* calendar day of the window of N days ending today, oldest to newest; a
\* day's value is that of the input record dated that day, or 0.0; a record
\* dated outside the window changes no point.  The script reads neither N nor
\* the current date, so the claim is stated in its most favourable form: the
\* output is the window series of some N and some day.
DateWindowSeries ==
    DaySeriesBuilt =>
        \E n \in 1..7 : \E today \in CalendarDays : IsWindowSeries(n, today)

\* C3 as amended: the output always has exactly 7 points, one per weekday in
\* the fixed order seg, ter, qua, qui, sex, sáb, dom; a weekday's value is the
\* total of the last input record dated on that weekday, whatever its week,
\* or 0 when no record is.
WeekdaySlotSeries ==
    DaySeriesBuilt =>
        /\ Len(totais_plot) = 7
        /\ \A k \in 1..7 :
              totais_plot[k] =
                  IF OnWeekday(file, k) = {} THEN Num(0)
                  ELSE file[Last(OnWeekday(file, k))].total

\* A finished daily run whose input holds two Mondays a week apart.
WeekdaySlotWitness ==
    /\ script = "daily" /\ Done /\ exit_code = 0 /\ saved
    /\ \E a, b \in 1..Len(file) :
          /\ a < b
          /\ file[a].id = Date(2024, 1, 8) /\ file[b].id = Date(2024, 1, 1)
    /\ totais_plot[1] = Num(300)

----------------------------------------------------------------------------
(* C4 *)

\* C4: in date mode every point, the gap-filled days included, is labelled
\* "<abbreviated-weekday> (dd/mm)" for a calendar date of that weekday; with
\* zero input records the output has 7 points, all of value 0.0.
EveryDayLabelled ==
    /\ DaySeriesBuilt =>
          \A k \in 1..Len(dias_plot) :
              \E d \in CalendarDays :
                  /\ dias_semana[StrftimeA(d)] = dias_da_semana_ordenados[k]
                  /\ dias_plot[k] =
                         dias_da_semana_ordenados[k] \o " (" \o Pad2(d.d) \o "/"
                             \o Pad2(d.m) \o ")"
    /\ (script = "daily" /\ env = "ok" /\ file = <<>> /\ Done) =>
          /\ Len(totais_plot) = 7
          /\ \A k \in 1..Len(totais_plot) : totais_plot[k] = Num(0)

\* C4 as amended: a weekday that has an input record is labelled
\* "<abbreviated-weekday> (dd/mm)" with the day and month of the last such
\* record; a weekday without a record is labelled with the bare abbreviation;
\* with zero input records the run fails and has no points at all.
RecordedDaysLabelled ==
    /\ DaySeriesBuilt =>
          /\ Len(dias_plot) = 7
          /\ \A k \in 1..7 :
                LET abbr == <<"seg", "ter", "qua", "qui", "sex", "sáb", "dom">>[k]
                    on == OnWeekday(file, k)
                IN dias_plot[k] =
                       IF on = {} THEN abbr
                       ELSE abbr \o " (" \o Pad2(file[Last(on)].id.d) \o "/"
                                \o Pad2(file[Last(on)].id.m) \o ")"
    /\ (script = "daily" /\ env = "ok" /\ file = <<>>) =>
          dias_plot = <<>> /\ totais_plot = <<>> /\ exit_code # 0

\* A rendered daily chart with a dated Monday, a dated Sunday of the year
\* before and gap-filled days between them.
RecordedDaysWitness ==
    /\ script = "daily" /\ fig = "bar"
    /\ dias_plot = <<"seg (01/01)", "ter", "qua", "qui", "sex", "sáb", "dom (31/12)">>

----------------------------------------------------------------------------
(* C5 *)

\* The colour policy of the claim over the palette [light, mid, dark].
PolicyColors(n, shades) ==
    [k \in 1..n |->
        IF n = 1 THEN shades[2]
        ELSE IF n % 2 = 1 THEN shades[((k - 1) % 3) + 1]
        ELSE <<shades[1], shades[3]>>[((k - 1) % 2) + 1]]

\* C5: every category-chart script colours the point at index i by the number
\* n of categories: n = 1 the mid-tone, n odd the three tones in turn, n even
\* the light and dark tones in turn; the list has exactly n entries.
OddEvenPaletteEverywhere ==
    (script \in CategoryScripts /\ ColorsChosen) =>
        colors_to_use =
            PolicyColors(Len(categories),
                         IF script = "category" THEN CatShades ELSE IncShades)

----------------------------------------------------------------------------
(* C6 *)

\* C6: in the category chart, for every valid non-empty input, the series has
\* as many points as the input has records and the i-th point carries the
\* label and the coerced, clamped value of the i-th record; labels, values,
\* colours and legend stay aligned, also when two records share an _id.
CategorySeriesAligned ==
    (script = "category" /\ env = "ok" /\ Valid(file)) =>
        /\ error # "record"
        /\ CatSeriesBuilt =>
              /\ Len(categories) = Len(file)
              /\ Len(amounts) = Len(file)
              /\ \A k \in 1..Len(file) :
                    /\ categories[k] = file[k].id
                    /\ amounts[k] = Num(Clamped(file[k].total))
              /\ ColorsChosen => Len(colors_to_use) = Len(file)
              /\ fig = "pie" =>
                    legend_labels =
                        [k \in 1..Len(file) |-> <<file[k].id, Num(Clamped(file[k].total))>>]

\* A drawn pie of an input with two records of the same _id and a negative one.
CategorySeriesWitness ==
    /\ script = "category" /\ fig = "pie" /\ Done /\ exit_code = 0
    /\ Len(file) >= 3
    /\ file[1].id = file[3].id /\ file[1].total # file[3].total
    /\ Float(file[2].total) < 0

----------------------------------------------------------------------------
(* C7 *)

ValidationErrors == {"args", "missing_file", "json", "read", "empty", "record", "date"}

\* C7: all input validation completes before the first rendering step: no run
\* reports a validation failure after a figure was created, an image saved or
\* an upload attempted.
ValidationBeforeRendering ==
    error \in ValidationErrors => (fig = "none" /\ ~saved /\ ~uploaded)

----------------------------------------------------------------------------
(* C8 *)

IsDiag(l) == l.kind \in {"diag", "traceback"}

\* C8: a run ends with exit status 0 after printing exactly one line on
\* standard output, or with exit status 1 after printing a diagnostic on the
\* error stream; no failure diagnostic goes to standard output.
ExitContract ==
    Done =>
        \/ /\ exit_code = 0 /\ error = "none"
           /\ Len(out) = 1 /\ ~IsDiag(out[1])
        \/ /\ exit_code = 1 /\ error # "none"
           /\ \E k \in 1..Len(err) : IsDiag(err[k])
           /\ \A k \in 1..Len(out) : ~IsDiag(out[k])

----------------------------------------------------------------------------
(* C9 *)

\* C9: when the input decodes to an empty collection, every script fails with
\* the empty-input error and exit status 1 before any record is read and
\* before any chart is rendered, saved or uploaded; no series is produced.
EmptyInputFails ==
    (env = "ok" /\ file = <<>>) =>
        /\ pc \in {"args", "exists", "load", "empty", "done"}
        /\ fig = "none" /\ ~saved /\ ~uploaded
        /\ categories = <<>> /\ amounts = <<>>
        /\ dias_plot = <<>> /\ totais_plot = <<>>
        /\ exit_code # 0
        /\ Done => (exit_code = 1 /\ error = "empty")

\* A run on an empty collection that has ended.
EmptyInputWitness ==
    env = "ok" /\ file = <<>> /\ data = <<>> /\ Done /\ error = "empty"

----------------------------------------------------------------------------
(* C10 *)

\* C10: the total shown with the series is the sum of the coerced, clamped
\* values of the points of the series, in category mode over all records, in
\* date mode over the days shown, and is never negative.
TotalIsClampedSum ==
    /\ (script = "category" /\ pie_total # Unset) =>
          pie_total = Num(ClampedSum([k \in 1..Len(file) |-> file[k].total]))
    /\ (script = "daily" /\ total_gastos # Unset) =>
          /\ total_gastos = Num(ClampedSum(totais_plot))
          /\ Float(total_gastos) >= 0
====
